---------------------------- MODULE Spec2Model ----------------------------
(***************************************************************************)
(* A model of fillTimesheet (src/main.js): the month filter, the commit    *)
(* loop with its author filter, the GitHub review collection, the duration *)
(* allocation and the CSV row assembly.                                    *)
(*                                                                         *)
(* Dates are instants of local time, [day, ms]: the day counted from       *)
(* 1970-01-01 and the millisecond within the day (a Date's value in ms is  *)
(* day * MsPerDay + ms; the pair keeps it within TLC's integers).  The     *)
(* local zone is taken to have no clock change at a month boundary.        *)
(* Numbers are JavaScript numbers with exact rational arithmetic: a ratio  *)
(* [n, d], or one of "NaN", "Infinity", "-Infinity".  Binary rounding of   *)
(* doubles is not modelled.                                                *)
(***************************************************************************)
EXTENDS Integers, Sequences, FiniteSets

VARIABLES
    targetDatesYear,   \* main.js:27-30
    targetDatesMonth,  \* main.js:27-30, 0 = January
    author,            \* Config.author, main.js:48
    pc,                \* where the run stands
    projIdx,           \* position of the for-of loop over gitClients
    gitResults,        \* what gitClient.log() gave for each project so far
    allCommits,        \* main.js:229
    prResponses,       \* what GitHub answers for each associated pull request
    allReviews,        \* main.js:230
    errors,            \* what console.error has logged
    rand,              \* the values Math.random() returns, in call order
    durations,         \* main.js:194
    allRows,           \* main.js:215
    csvContent,        \* main.js:221, as its lines
    call,              \* the arguments of a function under test
    ret                \* its result

vars == <<targetDatesYear, targetDatesMonth, author, pc, projIdx, gitResults,
          allCommits, prResponses, allReviews, errors, rand, durations,
          allRows, csvContent, call, ret>>

---------------------------------------------------------------------------
(* Bounds of the model.                                                    *)

\* Number of configured projects (Config.projects).
NumProjects == 2
\* Longest commit log a project returns.
MaxLog == 2
\* Most pull requests the search returns.
MaxPRs == 2
\* Most reviews one pull request holds.
MaxPRReviews == 1
\* Math.random() returns k / RandDen for k in 0 .. RandDen - 1.
RandDen == 2
\* Most commits and most reviews handed to writeToCSV on its own.
MaxCommits == 2
MaxReviews == 2
\* Largest numEntries and totalHours handed to distributeTimeEvenly on its own.
MaxCount == 3
MaxTotal == 2

---------------------------------------------------------------------------
(* Dates.                                                                  *)

MsPerDay == 24 * 60 * 60 * 1000

\* new Date(text) of a text that is no date: its time value is NaN.
InvalidDate == [nan |-> TRUE]

IsValidDate(d) == "day" \in DOMAIN d

IsLeap(y) == (y % 4 = 0 /\ y % 100 # 0) \/ y % 400 = 0

\* Days of month m (0 = January) of year y.
DaysInMonth(y, m) ==
    IF m = 1 THEN (IF IsLeap(y) THEN 29 ELSE 28)
    ELSE IF m \in {3, 5, 8, 10} THEN 30 ELSE 31

RECURSIVE DaysBeforeMonth(_, _)
DaysBeforeMonth(y, m) ==
    IF m = 0 THEN 0 ELSE DaysBeforeMonth(y, m - 1) + DaysInMonth(y, m - 1)

\* Days from 1970-01-01 to January 1st of year y (y >= 1970).
DaysBeforeYear(y) ==
    LET leaps(z) == (z - 1) \div 4 - (z - 1) \div 100 + (z - 1) \div 400
    IN  365 * (y - 1970) + leaps(y) - leaps(1970)

\* new Date(year, monthIndex, day): local midnight of that day; a month
\* index past December rolls into the next year and day 0 is the day before
\* the 1st, as the Date constructor normalises its arguments.
NewDate(year, monthIndex, day) ==
    LET y == year + (monthIndex \div 12)
        m == monthIndex % 12
    IN  [day |-> DaysBeforeYear(y) + DaysBeforeMonth(y, m) + (day - 1), ms |-> 0]

\* a >= b and a <= b on Dates compare their time values; every comparison
\* with an Invalid Date (NaN) is false.
DateGE(a, b) ==
    /\ IsValidDate(a)
    /\ IsValidDate(b)
    /\ (a.day > b.day \/ (a.day = b.day /\ a.ms >= b.ms))

DateLE(a, b) ==
    /\ IsValidDate(a)
    /\ IsValidDate(b)
    /\ (a.day < b.day \/ (a.day = b.day /\ a.ms <= b.ms))

\* The sign of a.date - b.date, which is all Array.prototype.sort reads of it.
DateMinus(a, b) ==
    IF a.day # b.day THEN (IF a.day < b.day THEN -1 ELSE 1)
    ELSE IF a.ms # b.ms THEN (IF a.ms < b.ms THEN -1 ELSE 1)
    ELSE 0

isCommitInMonth(commitDate) ==
    LET startOfMonth == NewDate(targetDatesYear, targetDatesMonth, 1)
        endOfMonth == NewDate(targetDatesYear, targetDatesMonth + 1, 0)
    IN  DateGE(commitDate, startOfMonth) /\ DateLE(commitDate, endOfMonth)

\* localizeDate with { month, day, year }: the text names the calendar day
\* alone, and is modelled as that day.
localizeDate(date) == date.day

\* The instant ms milliseconds after local midnight of day d, ms may be
\* negative or reach into the following days.
Instant(d, ms) ==
    [day |-> d + (ms \div MsPerDay), ms |-> ms % MsPerDay]

---------------------------------------------------------------------------
(* JavaScript numbers: a ratio n/d with d > 0 in lowest terms, or, with    *)
(* d = 0, NaN (n = 0), Infinity (n = 1) and -Infinity (n = -1).            *)

Sign(x) == IF x > 0 THEN 1 ELSE IF x < 0 THEN -1 ELSE 0

Abs(x) == IF x < 0 THEN -x ELSE x

RECURSIVE Gcd(_, _)
Gcd(a, b) == IF b = 0 THEN a ELSE Gcd(b, a % b)

\* Op of a, and Op of a and b, with each argument evaluated once, before
\* Op is, as a call evaluates its arguments.
Strict1(Op(_), a) == CHOOSE r \in {Op(x) : x \in {a}} : TRUE

Strict2(Op(_, _), a, b) == CHOOSE r \in {Op(x, y) : x \in {a}, y \in {b}} : TRUE

Ratio(n, d) ==
    IF d = 0 THEN [n |-> Sign(n), d |-> 0]
    ELSE LET g == Gcd(Abs(n), Abs(d))
         IN  [n |-> Sign(d) * (n \div g), d |-> Abs(d) \div g]

Num(n, d) == Strict2(Ratio, n, d)

NaN == [n |-> 0, d |-> 0]
Infinity == [n |-> 1, d |-> 0]

IsFinite(a) == a.d # 0

Add(a, b) ==
    IF IsFinite(a) /\ IsFinite(b) THEN Num(a.n * b.d + b.n * a.d, a.d * b.d)
    ELSE IF a = NaN \/ b = NaN THEN NaN
    ELSE IF IsFinite(b) THEN a
    ELSE IF IsFinite(a) THEN b
    ELSE IF a = b THEN a ELSE NaN

Neg(a) == [n |-> -a.n, d |-> a.d]

\* 0 * Infinity is NaN: the product of the signs is 0.
Mul(a, b) ==
    IF IsFinite(a) /\ IsFinite(b) THEN Num(a.n * b.n, a.d * b.d)
    ELSE Num(Sign(a.n) * Sign(b.n), 0)

\* x / 0 is Infinity, -Infinity or (0 / 0) NaN; no division raises.
Div(a, b) ==
    IF ~IsFinite(b) THEN Mul(a, IF b = NaN THEN NaN ELSE Num(0, 1))
    ELSE Mul(a, Num(b.d, b.n))

GT(a, b) ==
    /\ a # NaN
    /\ b # NaN
    /\ IF IsFinite(a) /\ IsFinite(b) THEN a.n * b.d > b.n * a.d
       ELSE IF IsFinite(a) THEN b.n < 0
       ELSE IF IsFinite(b) THEN a.n > 0
       ELSE a.n > b.n

\* a + b, a - b, a * b, a / b and a > b of JavaScript numbers.
JsAdd(a, b) == Strict2(Add, a, b)

JsNeg(a) == Strict1(Neg, a)

JsSub(a, b) == JsAdd(a, JsNeg(b))

JsMul(a, b) == Strict2(Mul, a, b)

JsDiv(a, b) == Strict2(Div, a, b)

JsGT(a, b) == Strict2(GT, a, b)

\* The text of the nearest multiple of 0.01, the larger one of two equally
\* near, the sign written apart; "NaN", "Infinity" and "-Infinity" for the
\* others.  The text is modelled as its sign, its count of hundredths and
\* the word it spells if it is no numeral.
Fixed2(x) ==
    IF IsFinite(x)
    THEN [neg |-> x.n < 0,
          cents |-> (2 * 100 * Abs(x.n) + x.d) \div (2 * x.d),
          word |-> ""]
    ELSE [neg |-> x.n < 0, cents |-> 0,
          word |-> IF x = NaN THEN "NaN" ELSE "Infinity"]

\* Number.prototype.toFixed(2)
toFixed2(x) == Strict1(Fixed2, x)

Reading(t) ==
    IF t.word = "NaN" THEN NaN
    ELSE IF t.word = "Infinity" THEN Num(IF t.neg THEN -1 ELSE 1, 0)
    ELSE Num(IF t.neg THEN -t.cents ELSE t.cents, 100)

\* The number a toFixed(2) text reads as.
NumberOf(t) == Strict1(Reading, t)

RECURSIVE SumTo(_, _)
SumTo(s, k) == IF k = 0 THEN Num(0, 1) ELSE JsAdd(SumTo(s, k - 1), s[k])

SumAll(s) == SumTo(s, Len(s))

\* timeArray.reduce((a, b) => a + b, 0), from the left.
SumSeq(s) == Strict1(SumAll, s)

\* Math.random() returning k / RandDen.
Random(k) == Num(k, RandDen)

RandomValues == {Random(k) : k \in 0 .. RandDen - 1}

---------------------------------------------------------------------------
(* Configuration (main.js:41-59).                                          *)

ConfigTotalHours == 160
ConfigAllowedVariation == 5
reviewComment == "Analyzed Pull Request and added comments"
commitComment == "Worked on project and PBI associated"
githubUsername == "Gwitchr"
csvHeader == "Project/Repo,Date,Commit/Review Message,Comments,Time used"

NoValue == [none |-> TRUE]

---------------------------------------------------------------------------
(* distributeTimeEvenly (main.js:177-189).  rs holds the values of the     *)
(* calls of Math.random(), in order: one for targetHours, one per entry.   *)

TargetHours(totalHours, variation, rs) ==
    JsAdd(totalHours,
          JsSub(JsMul(JsMul(rs[1], variation), Num(2, 1)), variation))

\* Array.from({ length: numEntries }, () => baseTime + (random * 2 - 0.5))
TimeArray(numEntries, totalHours, variation, rs) ==
    LET targetHours == TargetHours(totalHours, variation, rs)
        baseTime == JsDiv(targetHours, Num(numEntries, 1))
        draw(base) == [i \in 1 .. numEntries |->
                         JsAdd(base, JsSub(JsMul(rs[i + 1], Num(2, 1)), Num(1, 2)))]
    IN  Strict1(draw, baseTime)

\* time * adjustmentFactor for each entry: the durations before toFixed(2).
ScaledTimes(numEntries, totalHours, variation, rs) ==
    LET targetHours == TargetHours(totalHours, variation, rs)
        timeArray == TimeArray(numEntries, totalHours, variation, rs)
        sum == SumSeq(timeArray)
        adjustmentFactor == JsDiv(targetHours, sum)
        scale(times, factor) == [i \in DOMAIN times |-> JsMul(times[i], factor)]
    IN  Strict2(scale, timeArray, adjustmentFactor)

\* A variant that guards the division by zero by allocating to no fewer
\* than one entry.
distributeTimeToOneAtLeast(numEntries, totalHours, variation, rs) ==
    LET fix(scaled) == [i \in DOMAIN scaled |-> toFixed2(scaled[i])]
    IN  IF numEntries = 0
        THEN <<toFixed2(TargetHours(totalHours, variation, rs))>>
        ELSE Strict1(fix, ScaledTimes(numEntries, totalHours, variation, rs))

distributeTimeEvenly(numEntries, totalHours, variation, rs) ==
    LET fix(scaled) == [i \in DOMAIN scaled |-> toFixed2(scaled[i])]
    IN  Strict1(fix, ScaledTimes(numEntries, totalHours, variation, rs))

RandSeqs(n) == [1 .. n -> RandomValues]

---------------------------------------------------------------------------
(* writeToCSV (main.js:192-225).                                           *)

Undefined == [neg |-> FALSE, cents |-> 0, word |-> "undefined"]

\* Array.prototype.at(k), k counted from 0: a negative k counts from the
\* end, and -0 is 0.
At(arr, k) ==
    LET idx == IF k < 0 THEN Len(arr) + k ELSE k
    IN  IF idx >= 0 /\ idx < Len(arr) THEN arr[idx + 1] ELSE Undefined

\* commits.map((commit, i) => ...), i counted from 0.
CommitRows(commits, ds) ==
    [j \in 1 .. Len(commits) |->
        [data |-> [repo |-> commits[j].project,
                   date |-> commits[j].date,
                   message |-> commits[j].message,
                   comment |-> commitComment,
                   hours |-> At(ds, -(j - 1))],
         date |-> commits[j].rawDate]]

\* reviews.map((review, i) => ...), i counted from 0.
ReviewRows(reviews, ds) ==
    [j \in 1 .. Len(reviews) |->
        [data |-> [repo |-> reviews[j].repo,
                   date |-> reviews[j].date,
                   message |-> reviews[j].pullRequest,
                   comment |-> reviewComment,
                   hours |-> At(ds, j - 1)],
         date |-> reviews[j].rawDate]]

\* row goes before the first row that the comparator puts after it, and so
\* after every row that compares equal to it.
InsertAfterEqual(sorted, row) ==
    LET before == {i \in DOMAIN sorted : DateMinus(sorted[i].date, row.date) <= 0}
        k == Cardinality(before)
    IN  SubSeq(sorted, 1, k) \o <<row>> \o SubSeq(sorted, k + 1, Len(sorted))

InsertRow(sorted, row) == Strict2(InsertAfterEqual, sorted, row)

RECURSIVE SortPrefix(_, _)
SortPrefix(rows, k) ==
    IF k = 0 THEN <<>> ELSE InsertRow(SortPrefix(rows, k - 1), rows[k])

SortAll(rows) == SortPrefix(rows, Len(rows))

\* rows.sort((a, b) => a.date - b.date): Array.prototype.sort is stable.
SortRows(rows) == Strict1(SortAll, rows)

\* A variant that puts the commit rows first: [...commitRows, ...reviewRows].
AssembleRowsCommitsFirst(commits, reviews, ds) ==
    SortRows(CommitRows(commits, ds) \o ReviewRows(reviews, ds))

\* [...reviewRows, ...commitRows].sort(...)
AssembleRows(commits, reviews, ds) ==
    SortRows(ReviewRows(reviews, ds) \o CommitRows(commits, ds))

WriteToCSV ==
    /\ pc = "writeToCSV"
    /\ LET totalEntries == Len(allCommits) + Len(allReviews)
       IN  durations' = distributeTimeEvenly(totalEntries,
                                             Num(ConfigTotalHours, 1),
                                             Num(ConfigAllowedVariation, 1),
                                             rand)
    /\ allRows' = AssembleRows(allCommits, allReviews, durations')
    /\ csvContent' = <<csvHeader>> \o
                       [i \in 1 .. Len(allRows') |-> allRows'[i].data]
    /\ pc' = "done"
    /\ UNCHANGED <<targetDatesYear, targetDatesMonth, author, projIdx,
                   gitResults, allCommits, prResponses, allReviews, errors,
                   rand, call, ret>>

---------------------------------------------------------------------------
(* Inputs.                                                                 *)

\* Target months: every month of a common year and of a leap year.
Targets == [y : {2023, 2024}, m : 0 .. 11]

\* The target month of a whole run, and of writeToCSV on its own.
RunTarget == [y |-> 2024, m |-> 1]

FirstInstant(y, m) == NewDate(y, m, 1)

\* The last millisecond of the last calendar day of the month.
LastInstant(y, m) ==
    Instant(FirstInstant(y, m).day + DaysInMonth(y, m) - 1, MsPerDay - 1)

\* Dates around the ends of the target month, and no date at all.
BoundaryDates(y, m) ==
    LET first == FirstInstant(y, m)
        last == LastInstant(y, m)
    IN  {Instant(first.day, -1), first, Instant(first.day, 1),
         Instant(first.day + 14, MsPerDay \div 2),
         Instant(last.day, 0), Instant(last.day, 1),
         last, Instant(last.day, MsPerDay), InvalidDate}

\* Two instants that isCommitInMonth accepts.
InDates(y, m) ==
    {FirstInstant(y, m), Instant(FirstInstant(y, m).day + 1, 1000)}

\* An instant that it rejects: the month before.
OutDate(y, m) == Instant(FirstInstant(y, m).day, -1)

SeqsUpTo(S, n) == UNION {[1 .. k -> S] : k \in 0 .. n}

\* Entries as getCommits builds them (main.js:86-96); the message tells the
\* entries of one list apart.
CommitEntry(project, rawDate, message, name) ==
    [project |-> project, rawDate |-> rawDate, date |-> localizeDate(rawDate),
     message |-> message, author |-> name]

\* Entries as getGithubReviews builds them (main.js:155-165).
ReviewEntry(repo, rawDate, title, body) ==
    [repo |-> repo, rawDate |-> rawDate, date |-> localizeDate(rawDate),
     pullRequest |-> title, reviewComment |-> IF body = "" THEN "No comment" ELSE body]

\* Nothing of the run has happened yet.
Idle ==
    /\ projIdx = 0
    /\ gitResults = <<>>
    /\ allCommits = <<>>
    /\ prResponses = NoValue
    /\ allReviews = <<>>
    /\ errors = <<>>
    /\ durations = <<>>
    /\ allRows = <<>>
    /\ csvContent = <<>>
    /\ ret = NoValue

---------------------------------------------------------------------------
(* The run: fillTimesheet (main.js:228-244).                               *)

\* Array.prototype.includes on strings: exact, case-sensitive equality.
Includes(arr, x) == \E i \in DOMAIN arr : arr[i] = x

RECURSIVE FilterFrom(_, _, _)
FilterFrom(commits, allowed, i) ==
    IF i > Len(commits) THEN <<>>
    ELSE IF Includes(allowed, commits[i].author)
    THEN <<commits[i]>> \o FilterFrom(commits, allowed, i + 1)
    ELSE FilterFrom(commits, allowed, i + 1)

FilterAll(commits, allowed) == FilterFrom(commits, allowed, 1)

\* A variant that compares with the first configured name alone.
AuthorFilterFirstName(commits, allowed) ==
    SelectSeq(commits, LAMBDA c : allowed # <<>> /\ c.author = allowed[1])

\* commits.filter((commit) => Config.author.includes(commit.author))
AuthorFilter(commits, allowed) == Strict2(FilterAll, commits, allowed)

\* A variant that assigns instead of concatenating: allCommits = userCommits.
AccumulateOverwrite(all, userCommits) == userCommits

\* allCommits = allCommits.concat(userCommits)
Accumulate(all, userCommits) == all \o userCommits

\* What gitClient.log() gives: a rejection, or log.all.  A commit's date
\* stands for new Date(commit.date): the instant its text denotes, or an
\* Invalid Date.
LogFailure == [ok |-> FALSE, all |-> <<>>]

\* getCommits (main.js:75-101): the commits of the month, or [] when the
\* log cannot be read.
getCommits(projectName, log) ==
    IF ~log.ok THEN <<>>
    ELSE LET commits == SelectSeq(log.all, LAMBDA c : isCommitInMonth(c.date))
         IN  [j \in 1 .. Len(commits) |->
                 CommitEntry(projectName, commits[j].date, commits[j].message,
                             commits[j].author_name)]

\* The matching reviews of one pull request (main.js:149-167).
ReviewsOfPR(pr) ==
    LET mine == SelectSeq(pr.reviews,
                          LAMBDA r : /\ r.login = githubUsername
                                     /\ isCommitInMonth(r.submitted_at))
    IN  [j \in 1 .. Len(mine) |->
            ReviewEntry(pr.repo, mine[j].submitted_at, pr.title, mine[j].body)]

RECURSIVE ReviewLoop(_, _, _)
\* for (const pr of associatedPRs) inside the one try block: a failing
\* fetch leaves the loop for the catch clause.
ReviewLoop(prs, k, reviews) ==
    IF k > Len(prs) THEN [reviews |-> reviews, threw |-> FALSE]
    ELSE IF ~prs[k].ok THEN [reviews |-> reviews, threw |-> TRUE]
    ELSE ReviewLoop(prs, k + 1, reviews \o ReviewsOfPR(prs[k]))

\* getGithubReviews (main.js:130-174) against what GitHub answers.
getGithubReviews(github) ==
    IF ~github.searchOk THEN [reviews |-> <<>>, threw |-> TRUE]
    ELSE ReviewLoop(github.prs, 1, <<>>)

\* Inputs of the run.
AuthorLists == {<<"Alice">>, <<"Alice", "alice">>}

RawCommits(y, m) ==
    {[date |-> FirstInstant(y, m), author_name |-> "Alice"],
     [date |-> FirstInstant(y, m), author_name |-> "alice"],
     [date |-> OutDate(y, m), author_name |-> "Alice"]}

LogOutcomes(y, m) ==
    {LogFailure} \cup
    UNION {{[ok |-> TRUE,
             all |-> [j \in 1 .. k |-> [date |-> cs[j].date, message |-> j,
                                        author_name |-> cs[j].author_name]]] :
               cs \in [1 .. k -> RawCommits(y, m)]} : k \in 0 .. MaxLog}

RawReviews(y, m) ==
    {[login |-> githubUsername, submitted_at |-> FirstInstant(y, m), body |-> ""],
     [login |-> githubUsername, submitted_at |-> OutDate(y, m), body |-> "ok"],
     [login |-> "other", submitted_at |-> FirstInstant(y, m), body |-> "ok"]}

PRAnswers(y, m) ==
    {[ok |-> FALSE, reviews |-> <<>>]} \cup
    {[ok |-> TRUE, reviews |-> rs] : rs \in SeqsUpTo(RawReviews(y, m), MaxPRReviews)}

GithubAnswers(y, m) ==
    {[searchOk |-> FALSE, prs |-> <<>>]} \cup
    UNION {{[searchOk |-> TRUE,
             prs |-> [k \in 1 .. n |-> [repo |-> "o/r", number |-> k, title |-> k,
                                        ok |-> as[k].ok, reviews |-> as[k].reviews]]] :
               as \in [1 .. n -> PRAnswers(y, m)]} : n \in 0 .. MaxPRs}

\* The most entries a run hands to writeToCSV.
MaxEntries == NumProjects * MaxLog + MaxPRs * MaxPRReviews

\* The streams of Math.random() a run draws from: stream k returns
\* (k * i) % RandDen / RandDen at its i-th call.
RunStreams ==
    {[i \in 1 .. MaxEntries + 1 |-> Random((k * i) % RandDen)] :
        k \in 0 .. RandDen - 1}

Init ==
    /\ targetDatesYear = RunTarget.y
    /\ targetDatesMonth = RunTarget.m
    /\ author \in AuthorLists
    /\ rand \in RunStreams
    /\ pc = "getCommits"
    /\ call = [fn |-> "fillTimesheet"]
    /\ Idle

\* One turn of the loop over gitClients (main.js:232-238).
GetCommits ==
    /\ pc = "getCommits"
    /\ projIdx < NumProjects
    /\ \E log \in LogOutcomes(targetDatesYear, targetDatesMonth) :
         LET name == projIdx + 1
             commits == getCommits(name, log)
             userCommits == AuthorFilter(commits, author)
         IN  /\ gitResults' = Append(gitResults, log)
             /\ allCommits' = Accumulate(allCommits, userCommits)
             /\ errors' = IF log.ok THEN errors
                          ELSE Append(errors, [fetching |-> "commits", of |-> name])
    /\ projIdx' = projIdx + 1
    /\ pc' = IF projIdx + 1 = NumProjects THEN "getGithubReviews" ELSE "getCommits"
    /\ UNCHANGED <<targetDatesYear, targetDatesMonth, author, prResponses,
                   allReviews, rand, durations, allRows, csvContent, call, ret>>

\* allReviews = await getGithubReviews() (main.js:241).
GetGithubReviews ==
    /\ pc = "getGithubReviews"
    /\ \E github \in GithubAnswers(targetDatesYear, targetDatesMonth) :
         LET got == getGithubReviews(github)
         IN  /\ prResponses' = github
             /\ allReviews' = got.reviews
             /\ errors' = IF got.threw
                          THEN Append(errors, [fetching |-> "reviews", of |-> 0])
                          ELSE errors
    /\ pc' = "writeToCSV"
    /\ UNCHANGED <<targetDatesYear, targetDatesMonth, author, projIdx,
                   gitResults, allCommits, rand, durations, allRows,
                   csvContent, call, ret>>

Next == GetCommits \/ GetGithubReviews \/ WriteToCSV

Spec == Init /\ [][Next]_vars

\* The steps of the run are the continuations of one async function: the
\* event loop runs each once the awaited answer has arrived.
FairSpec == Spec /\ WF_vars(Next)

---------------------------------------------------------------------------
(* isCommitInMonth on its own.                                             *)

InitMonth ==
    /\ \E t \in Targets :
         /\ targetDatesYear = t.y
         /\ targetDatesMonth = t.m
         /\ \E d \in BoundaryDates(t.y, t.m) :
              call = [fn |-> "isCommitInMonth", commitDate |-> d]
    /\ author = <<"Alice">>
    /\ pc = "isCommitInMonth"
    /\ rand = <<>>
    /\ Idle

CallIsCommitInMonth ==
    /\ pc = "isCommitInMonth"
    /\ ret' = isCommitInMonth(call.commitDate)
    /\ pc' = "done"
    /\ UNCHANGED <<targetDatesYear, targetDatesMonth, author, projIdx,
                   gitResults, allCommits, prResponses, allReviews, errors,
                   rand, durations, allRows, csvContent, call>>

NextMonth == CallIsCommitInMonth

SpecMonth == InitMonth /\ [][NextMonth]_vars

\* C1: the month filter accepts the first and the last instant of the
\* target month and rejects the millisecond before the first and the
\* millisecond after the last.
MonthInclusiveBothEnds ==
    (pc = "done" /\ call.fn = "isCommitInMonth") =>
        LET first == FirstInstant(targetDatesYear, targetDatesMonth)
            last == LastInstant(targetDatesYear, targetDatesMonth)
            d == call.commitDate
        IN  /\ d \in {first, last} => ret = TRUE
            /\ d \in {Instant(first.day, -1), Instant(last.day, MsPerDay)}
                  => ret = FALSE

---------------------------------------------------------------------------
(* distributeTimeEvenly on its own, over its valid inputs: numEntries >= 0,*)
(* totalHours > 0 and 0 <= variation < totalHours.                         *)

AllocInputs ==
    {[numEntries |-> c, totalHours |-> t, variation |-> v] :
        c \in 0 .. MaxCount,
        t \in 1 .. MaxTotal \cup {ConfigTotalHours},
        v \in 0 .. MaxTotal \cup {ConfigAllowedVariation}}

InitAlloc ==
    /\ \E a \in AllocInputs :
         /\ a.variation < a.totalHours
         /\ call = [fn |-> "distributeTimeEvenly",
                    numEntries |-> a.numEntries,
                    totalHours |-> Num(a.totalHours, 1),
                    variation |-> Num(a.variation, 1)]
         /\ rand \in RandSeqs(a.numEntries + 1)
    /\ targetDatesYear = RunTarget.y
    /\ targetDatesMonth = RunTarget.m
    /\ author = <<"Alice">>
    /\ pc = "distributeTimeEvenly"
    /\ Idle

CallDistributeTimeEvenly ==
    /\ pc = "distributeTimeEvenly"
    /\ ret' = distributeTimeEvenly(call.numEntries, call.totalHours,
                                   call.variation, rand)
    /\ pc' = "done"
    /\ UNCHANGED <<targetDatesYear, targetDatesMonth, author, projIdx,
                   gitResults, allCommits, prResponses, allReviews, errors,
                   rand, durations, allRows, csvContent, call>>

---------------------------------------------------------------------------
(* writeToCSV on its own, over lists of entries as the run hands them over:*)
(* every date within the month, every commit by an allowed author.         *)

CommitLists(y, m) ==
    UNION {{[j \in 1 .. k |-> CommitEntry("p1", ds[j], j, "Alice")] :
               ds \in [1 .. k -> InDates(y, m)]} : k \in 0 .. MaxCommits}

ReviewLists(y, m) ==
    UNION {{[j \in 1 .. k |-> ReviewEntry("o/r", ds[j], j, "")] :
               ds \in [1 .. k -> InDates(y, m)]} : k \in 0 .. MaxReviews}

InitCSV ==
    /\ targetDatesYear = RunTarget.y
    /\ targetDatesMonth = RunTarget.m
    /\ allCommits \in CommitLists(RunTarget.y, RunTarget.m)
    /\ allReviews \in ReviewLists(RunTarget.y, RunTarget.m)
    /\ rand \in RandSeqs(Len(allCommits) + Len(allReviews) + 1)
    /\ author = <<"Alice">>
    /\ pc = "writeToCSV"
    /\ call = [fn |-> "writeToCSV"]
    /\ projIdx = NumProjects
    /\ gitResults = <<>>
    /\ prResponses = NoValue
    /\ errors = <<>>
    /\ durations = <<>>
    /\ allRows = <<>>
    /\ csvContent = <<>>
    /\ ret = NoValue

InitUnits == InitAlloc \/ InitCSV

NextUnits == CallDistributeTimeEvenly \/ WriteToCSV

SpecUnits == InitUnits /\ [][NextUnits]_vars

\* The call of distributeTimeEvenly has returned.
AllocDone == pc = "done" /\ call.fn = "distributeTimeEvenly"

\* C4: with numEntries >= 1, the durations before rounding sum to the
\* effective total drawn for the call.
ScaledSumIsTargetHours ==
    (AllocDone /\ call.numEntries >= 1) =>
        SumSeq(ScaledTimes(call.numEntries, call.totalHours,
                           call.variation, rand))
          = TargetHours(call.totalHours, call.variation, rand)

\* C5: with numEntries >= 1, every duration returned is greater than 0.
DurationsPositive ==
    (AllocDone /\ call.numEntries >= 1) =>
        \A i \in 1 .. Len(ret) : JsGT(NumberOf(ret[i]), Num(0, 1))

---------------------------------------------------------------------------
(* The rows of writeToCSV.                                                 *)

\* writeToCSV has written the timesheet.
CSVDone == pc = "done" /\ call.fn \in {"writeToCSV", "fillTimesheet"}

IsCommitRow(row) == row.data.comment = commitComment

IsReviewRow(row) == row.data.comment = reviewComment

\* The rows made from commit j and from review j (both counted from 1).
RowsOfCommit(j) ==
    {i \in DOMAIN allRows : /\ IsCommitRow(allRows[i])
                            /\ allRows[i].data.repo = allCommits[j].project
                            /\ allRows[i].data.message = allCommits[j].message}

RowsOfReview(j) ==
    {i \in DOMAIN allRows : /\ IsReviewRow(allRows[i])
                            /\ allRows[i].data.repo = allReviews[j].repo
                            /\ allRows[i].data.message = allReviews[j].pullRequest}

\* C2: review i (from 0) is given durations[i] and commit j (from 0) is
\* given durations[n - 1 - j], the first commit included.
PairingFrontAndBack ==
    CSVDone =>
        LET n == Len(durations)
        IN  /\ \A j \in DOMAIN allReviews : \A i \in RowsOfReview(j) :
                  allRows[i].data.hours = durations[j]
            /\ \A j \in DOMAIN allCommits : \A i \in RowsOfCommit(j) :
                  allRows[i].data.hours = durations[n - (j - 1)]

\* C3: the durations of the rows sum to the sum of the allocated durations.
RowHoursSumToAllocated ==
    CSVDone =>
        SumSeq([i \in DOMAIN allRows |-> NumberOf(allRows[i].data.hours)])
          = SumSeq([i \in DOMAIN durations |-> NumberOf(durations[i])])

\* C6: distributeTimeEvenly returns exactly numEntries values, none for 0,
\* and writeToCSV with no commit and no review writes the header line alone.
CountPreserved ==
    /\ AllocDone =>
          /\ Len(ret) = call.numEntries
          /\ call.numEntries = 0 => ret = <<>>
    /\ CSVDone =>
          /\ Len(durations) = Len(allCommits) + Len(allReviews)
          /\ (allCommits = <<>> /\ allReviews = <<>>) =>
                (durations = <<>> /\ csvContent = <<csvHeader>>)

\* C6's case: the timesheet of no entry has been written.
EmptyTimesheetWritten ==
    /\ pc = "done"
    /\ call.fn = "writeToCSV"
    /\ allCommits = <<>>
    /\ allReviews = <<>>
    /\ durations = <<>>
    /\ csvContent = <<csvHeader>>

\* C7: one row per commit and per review, in ascending order of the
\* entries' timestamps; of two rows of one timestamp a review comes before
\* a commit and rows of one kind keep the order of their lists.
RowsSortedStable ==
    CSVDone =>
        /\ Len(allRows) = Len(allCommits) + Len(allReviews)
        /\ \A j \in DOMAIN allCommits :
              /\ Cardinality(RowsOfCommit(j)) = 1
              /\ \A i \in RowsOfCommit(j) : allRows[i].date = allCommits[j].rawDate
        /\ \A j \in DOMAIN allReviews :
              /\ Cardinality(RowsOfReview(j)) = 1
              /\ \A i \in RowsOfReview(j) : allRows[i].date = allReviews[j].rawDate
        /\ \A i, k \in DOMAIN allRows :
              i < k => DateLE(allRows[i].date, allRows[k].date)
        /\ \A i, k \in DOMAIN allRows :
              (i < k /\ allRows[i].date = allRows[k].date) =>
                  ~(IsCommitRow(allRows[i]) /\ IsReviewRow(allRows[k]))
        /\ \A a, b \in DOMAIN allCommits : \A i \in RowsOfCommit(a), k \in RowsOfCommit(b) :
              (a < b /\ allCommits[a].rawDate = allCommits[b].rawDate) => i < k
        /\ \A a, b \in DOMAIN allReviews : \A i \in RowsOfReview(a), k \in RowsOfReview(b) :
              (a < b /\ allReviews[a].rawDate = allReviews[b].rawDate) => i < k

\* C7's case: a commit that is older than a review has moved before it, a
\* review and a commit of one timestamp, and two commits of one timestamp.
SortedWithTies ==
    /\ pc = "done"
    /\ call.fn = "writeToCSV"
    /\ \E c \in DOMAIN allCommits, r \in DOMAIN allReviews :
          DateMinus(allCommits[c].rawDate, allReviews[r].rawDate) < 0
    /\ \E c \in DOMAIN allCommits, r \in DOMAIN allReviews :
          allCommits[c].rawDate = allReviews[r].rawDate
    /\ \E a, b \in DOMAIN allCommits :
          a < b /\ allCommits[a].rawDate = allCommits[b].rawDate

---------------------------------------------------------------------------
(* The run.                                                                *)

\* fillTimesheet has written the timesheet.
RunDone == pc = "done" /\ call.fn = "fillTimesheet"

Allowed == {author[i] : i \in DOMAIN author}

\* The commits of project p among allCommits.
ProjectCommits(p) == SelectSeq(allCommits, LAMBDA c : c.project = p)

\* The commits of the month in the log read for project p, none if the
\* reading failed.
MonthCommits(p) ==
    IF gitResults[p].ok
    THEN SelectSeq(gitResults[p].all, LAMBDA c : isCommitInMonth(c.date))
    ELSE <<>>

\* C8: the commits kept of each project are, in the log's order, exactly
\* those whose author is in the allow-list by exact match; no other commit
\* reaches the rows, an empty allow-list keeps none, and filtering the
\* filtered list again changes nothing.
AuthorFilterExact ==
    /\ \A p \in DOMAIN gitResults :
          LET kept == ProjectCommits(p)
              expected == SelectSeq(MonthCommits(p),
                                    LAMBDA c : c.author_name \in Allowed)
          IN  /\ Len(kept) = Len(expected)
              /\ \A j \in DOMAIN kept :
                    /\ kept[j].message = expected[j].message
                    /\ kept[j].author = expected[j].author_name
              /\ AuthorFilter(getCommits(p, gitResults[p]), <<>>) = <<>>
    /\ \A i \in DOMAIN allCommits : allCommits[i].author \in Allowed
    /\ AuthorFilter(allCommits, author) = allCommits
    /\ \A i \in DOMAIN allRows :
          IsCommitRow(allRows[i]) =>
              \E j \in DOMAIN allCommits :
                  /\ allCommits[j].project = allRows[i].data.repo
                  /\ allCommits[j].message = allRows[i].data.message

\* C8's case: the timesheet is written, and a log held a commit of the
\* month by an author outside the allow-list before one by an allowed
\* author.
CommitOfOtherAuthorDropped ==
    /\ RunDone
    /\ \E p \in DOMAIN gitResults : \E j, k \in DOMAIN gitResults[p].all :
          /\ j < k
          /\ isCommitInMonth(gitResults[p].all[j].date)
          /\ isCommitInMonth(gitResults[p].all[k].date)
          /\ gitResults[p].all[j].author_name \notin Allowed
          /\ gitResults[p].all[k].author_name \in Allowed
          /\ Len(ProjectCommits(p)) = 1

\* The commits read so far are kept whatever log failed.
FetchedCommitsKept ==
    /\ Len(gitResults) = projIdx
    /\ pc # "getCommits" => projIdx = NumProjects
    /\ \A p \in DOMAIN gitResults :
          /\ ~gitResults[p].ok =>
                /\ ProjectCommits(p) = <<>>
                /\ \E e \in DOMAIN errors :
                      errors[e] = [fetching |-> "commits", of |-> p]
          /\ gitResults[p].ok =>
                ProjectCommits(p) = AuthorFilter(getCommits(p, gitResults[p]), author)
    /\ \A i, k \in DOMAIN allCommits :
          i < k => allCommits[i].project <= allCommits[k].project
    /\ RunDone =>
          /\ Len(durations) = Len(allCommits) + Len(allReviews)
          /\ Len(allRows) = Len(allCommits) + Len(allReviews)
          /\ Len(csvContent) = 1 + Len(allRows)

\* The log of some project could not be read.
SomeLogFailed == \E p \in DOMAIN gitResults : ~gitResults[p].ok

\* C9: a log that cannot be read counts as empty and raises nothing; the
\* projects after it are read in order, the commits of the logs that could
\* be read are all kept, and the timesheet is written in the end with a
\* duration for every record.
FailedLogTolerated ==
    /\ []FetchedCommitsKept
    /\ SomeLogFailed ~> RunDone

\* C9's case: the first log failed, the second gave a commit that was
\* kept, and the timesheet is written.
WrittenAfterFailedLog ==
    /\ RunDone
    /\ ~gitResults[1].ok
    /\ gitResults[NumProjects].ok
    /\ ProjectCommits(NumProjects) # <<>>
    /\ Len(durations) = Len(allCommits) + Len(allReviews)

RECURSIVE ReviewsOfAnswered(_, _)
\* The matching reviews of the pull requests 1 .. k that answered.
ReviewsOfAnswered(prs, k) ==
    IF k = 0 THEN <<>>
    ELSE ReviewsOfAnswered(prs, k - 1)
           \o (IF prs[k].ok THEN ReviewsOfPR(prs[k]) ELSE <<>>)

\* C10: when the reviews of one pull request cannot be fetched, the
\* matching reviews of every other pull request, before and after it, are
\* collected and the timesheet is written.
OtherPullRequestsCollected ==
    (pc \in {"writeToCSV", "done"} /\ call.fn = "fillTimesheet"
       /\ prResponses.searchOk) =>
        allReviews = ReviewsOfAnswered(prResponses.prs, Len(prResponses.prs))

=============================================================================
